---- MODULE Spec2Model ----
(***************************************************************************)
(* A model of the availability checker of src/main.py: SearchCog.cache,    *)
(* SearchCog.check_platform and the username_check command that calls it,  *)
(* run as asyncio tasks of one event loop.  A task runs without            *)
(* interruption from one suspension to the next; `running` names the task  *)
(* that holds the loop.  The suspensions modelled are the awaits of the     *)
(* outbound requests, the only ones between which the command reads or     *)
(* writes the cache: the awaits of the deferral and of the message sends   *)
(* are taken within the step they belong to, since a step of another task  *)
(* there commutes with the command's own steps.  SearchBot.session and     *)
(* SearchBot.close are modelled too: Spec is the bot while it is up,       *)
(* LiveSpec adds the fairness of the event loop, LifeSpec the shutdown.    *)
(***************************************************************************)
EXTENDS Integers, Sequences, FiniteSets, TLC

VARIABLES
    now,          \* the wall clock read by datetime.now().timestamp()
    cache,        \* SearchCog.cache: a dict (platform, username) -> (time, available)
    search_count, \* SearchBot.search_count
    remote,       \* what the platforms answer for each key, over time
    running,      \* the task that holds the event loop, or NoTask
    task,         \* per task: the position and locals of its username_check
    prev,         \* per key: the check_platform call that returned last
    lookups,      \* the check_platform calls made so far
    sessions,     \* the ClientSessions created so far, each "open" or "closed"
    session,      \* SearchBot._session: an index of sessions, or NoSession
    shut          \* the bot: "up", "closing" (within close()) or "down"

vars ==
    <<now, cache, search_count, remote, running, task, prev, lookups,
      sessions, session, shut>>

-----------------------------------------------------------------------------
(* Bounds of the model *)

\* The check_platform calls made in one run: two commands' worth.
MaxLookups == 18

\* The tasks that may run a command at the same time.
Procs == {1, 2}
NoTask == 0

\* The instants at which the clock is read, around cache_ttl and half of it.
Clock == <<0, 1800, 3600, 3610>>
Instants == {Clock[i] : i \in 1..Len(Clock)}

-----------------------------------------------------------------------------
(* SearchBot.platforms *)

Lower == {"a", "b", "c", "e", "i", "l", "z"}
Upper == {"A", "B", "Z"}
Digit == {"0", "1", "9"}
Alnum == Lower \cup Upper \cup Digit
\* The quantifier + has no upper limit.
NoMax == -1

\* The keys of the dict, in insertion order.
Platforms ==
    <<"facebook", "twitter", "instagram", "linkedin", "github",
      "youtube", "twitch", "tiktok", "reddit">>

PlatformNames == {Platforms[i] : i \in 1..Len(Platforms)}

\* data['regex'] as the character class and the length limits it states.
PlatformRegex(platform) ==
    CASE platform = "facebook"  -> [chars |-> Alnum \cup {"."}, min |-> 1, max |-> NoMax]
      [] platform = "twitter"   -> [chars |-> Alnum \cup {"_"}, min |-> 1, max |-> 15]
      [] platform = "instagram" -> [chars |-> Alnum \cup {"_", "."}, min |-> 1, max |-> 30]
      [] platform = "linkedin"  -> [chars |-> Alnum \cup {"-"}, min |-> 5, max |-> 30]
      [] platform = "github"    -> [chars |-> Alnum \cup {"-"}, min |-> 1, max |-> 39]
      [] platform = "youtube"   -> [chars |-> Alnum \cup {"-"}, min |-> 3, max |-> 30]
      [] platform = "twitch"    -> [chars |-> Alnum \cup {"_"}, min |-> 4, max |-> 25]
      [] platform = "tiktok"    -> [chars |-> Alnum \cup {"_", "."}, min |-> 2, max |-> 24]
      [] platform = "reddit"    -> [chars |-> Alnum \cup {"_", "-"}, min |-> 3, max |-> 20]

\* re.fullmatch(data['regex'], username)
FullMatch(platform, username) ==
    LET r == PlatformRegex(platform) IN
        /\ Len(username) >= r.min
        /\ r.max = NoMax \/ Len(username) <= r.max
        /\ \A i \in 1..Len(username) : username[i] \in r.chars

-----------------------------------------------------------------------------
(* Inputs *)

\* The usernames given to the command, as sequences of characters:
\* "alice" matches every platform's pattern, "a_" only three of them.
Usernames == {<<"a", "l", "i", "c", "e">>, <<"a", "_">>}

Keys == PlatformNames \X Usernames

\* response.status values
Statuses == {200, 301, 302, 403, 404, 429, 500}

\* The exceptions session.get raises for a failure of the transport, by class.
ExcKinds == {"TimeoutError", "ClientConnectionError", "ClientResponseError"}

\* What a request ends in: a response with a status, or an exception.
Response(s) == [status |-> s, exc |-> ""]
Raised(e) == [status |-> 0, exc |-> e]
Outcomes == {Response(s) : s \in Statuses} \cup {Raised(e) : e \in ExcKinds}

PlatformIndex(platform) == CHOOSE j \in 1..Len(Platforms) : Platforms[j] = platform
ClockIndex(time) == CHOOSE j \in 1..Len(Clock) : Clock[j] = time

\* The outcomes in the order in which the platforms go through them; the
\* exception raised is the one of ExcSeq the platform has.
OutcomeSeq ==
    <<Response(404), Response(200), Response(302), Raised("TimeoutError"),
      Response(403), Response(301), Response(429), Response(500)>>

ExcSeq == <<"TimeoutError", "ClientConnectionError", "ClientResponseError">>

\* The answers of working platforms: the outcome of a request for key k that
\* ends at a given time. The answer differs from platform to platform and
\* between the usernames, and it changes as time passes; every key meets
\* every outcome of OutcomeSeq at some instant.
Rotation ==
    [k \in Keys, time \in Instants |->
        LET o == OutcomeSeq[((PlatformIndex(k[1]) + 4 * (Len(k[2]) % 2) + ClockIndex(time))
                             % Len(OutcomeSeq)) + 1]
        IN IF o.exc = "" THEN o
           ELSE Raised(ExcSeq[(PlatformIndex(k[1]) % Len(ExcSeq)) + 1])]

\* Every request fails with the same exception.
AllDown(exc) == [k \in Keys, time \in Instants |-> Raised(exc)]

Scenarios == {Rotation, AllDown("TimeoutError")}

\* An outage: no platform answers, and every request lasts until its deadline
\* ends it, but for github and instagram, which answer as in Rotation.
Outage ==
    [k \in Keys, time \in Instants |->
        IF k[1] \in {"github", "instagram"} THEN Rotation[k, time]
        ELSE Raised("TimeoutError")]

-----------------------------------------------------------------------------
(* SearchCog.check_platform, its parts *)

cache_ttl == 3600

\* The values of Optional[bool]
PyTrue == "True"
PyFalse == "False"
PyNone == "None"
PyBool(b) == IF b THEN PyTrue ELSE PyFalse

EmptyDict == [k \in {} |-> PyNone]

\* d[k] = v of a dict
DictSet(d, k, v) == [x \in DOMAIN d \cup {k} |-> IF x = k THEN v ELSE d[x]]

\* cache_key = (platform, username)
CacheKey(platform, username) == <<platform, username>>

\* Mutants of Fresh: the comparison turned round, and the limit included.
FreshReversed(entry, current_time) == current_time - entry.ts > cache_ttl
FreshInclusive(entry, current_time) == current_time - entry.ts <= cache_ttl

\* current_time - cached_time < self.cache_ttl
Fresh(entry, current_time) == current_time - entry.ts < cache_ttl

\* The cache check: the key is in the cache and its entry is fresh.
CacheHit(c, cache_key, current_time) ==
    /\ cache_key \in DOMAIN c
    /\ Fresh(c[cache_key], current_time)

\* Mutant of Requests: github is asked through its API and then through its
\* profile page.
RequestsWithFallback(platform, username) ==
    IF platform = "github"
        THEN <<[target |-> "api.github.com/users/", allow_redirects |-> TRUE],
               [target |-> platform, allow_redirects |-> FALSE]>>
    ELSE IF platform = "instagram"
        THEN <<[target |-> "www.instagram.com/", allow_redirects |-> FALSE]>>
    ELSE <<[target |-> platform, allow_redirects |-> FALSE]>>

\* The requests one invocation issues after a miss, by branch.
Requests(platform, username) ==
    IF platform = "github"
        THEN <<[target |-> "api.github.com/users/", allow_redirects |-> TRUE]>>
    ELSE IF platform = "instagram"
        THEN <<[target |-> "www.instagram.com/", allow_redirects |-> FALSE]>>
    ELSE <<[target |-> platform, allow_redirects |-> FALSE]>>

\* Mutants of Interpret: the rule of instagram applied to every platform, and
\* the default rule applied to instagram too.
InterpretRedirectEverywhere(platform, status) == status \in {404, 302}
InterpretNotFoundOnly(platform, status) == status = 404

\* available, from response.status, by branch.
Interpret(platform, status) ==
    IF platform = "github" THEN status = 404
    ELSE IF platform = "instagram" THEN status \in {404, 302}
    ELSE status = 404

\* The classes an exception class derives from (itself included).
Bases(exc) ==
    CASE exc = "TimeoutError" -> {"TimeoutError", "Exception"}
      [] exc = "ClientConnectionError" -> {"ClientConnectionError", "ClientError", "Exception"}
      [] exc = "ClientResponseError" -> {"ClientResponseError", "ClientError", "Exception"}

\* Mutant of Caught: the timeout is not named in the except clause.
CaughtClientErrorOnly == {"ClientError"}

\* except (aiohttp.ClientError, asyncio.TimeoutError)
Caught == {"ClientError", "TimeoutError"}
Handled(exc) == Bases(exc) \cap Caught # {}

\* Mutants of CacheStore: an entry the key has already is kept; an entry is
\* replaced only by one with a later time; and the entries that have gone
\* stale are dropped when one is stored.
CacheStoreKeepFirst(c, cache_key, current_time, available) ==
    IF cache_key \in DOMAIN c THEN c
    ELSE DictSet(c, cache_key, [ts |-> current_time, val |-> PyBool(available)])
CacheStoreKeepNewest(c, cache_key, current_time, available) ==
    IF cache_key \in DOMAIN c /\ c[cache_key].ts >= current_time THEN c
    ELSE DictSet(c, cache_key, [ts |-> current_time, val |-> PyBool(available)])
CacheStoreEvicting(c, cache_key, current_time, available) ==
    [k \in {x \in DOMAIN c : current_time - c[x].ts < cache_ttl} \cup {cache_key} |->
        IF k = cache_key THEN [ts |-> current_time, val |-> PyBool(available)]
        ELSE c[k]]

\* self.cache[cache_key] = (current_time, available)
CacheStore(c, cache_key, current_time, available) ==
    DictSet(c, cache_key, [ts |-> current_time, val |-> PyBool(available)])

\* Mutants of CacheOnFailure: a failure is cached as Taken, and a failure is
\* cached as it is returned, as None.
CacheOnFailureStores(c, cache_key, current_time) ==
    DictSet(c, cache_key, [ts |-> current_time, val |-> PyFalse])
CacheOnFailureStoresNone(c, cache_key, current_time) ==
    DictSet(c, cache_key, [ts |-> current_time, val |-> PyNone])

\* The except branch logs the error and returns None: the cache stays as
\* it is.
CacheOnFailure(c, cache_key, current_time) == c

-----------------------------------------------------------------------------
(* SearchBot.session and SearchBot.close, their parts *)

\* self._session is None
NoSession == 0

timeout_total == 15

\* Mutants of ClientTimeout: the session is given no deadline, and it is
\* given one of an hour.
ClientTimeoutNone == [total |-> NoMax]
ClientTimeoutHour == [total |-> cache_ttl]

\* timeout=aiohttp.ClientTimeout(total=15): a request of the session is
\* ended by asyncio.TimeoutError when it has lasted this long.
ClientTimeout == [total |-> timeout_total]

\* A request that began at a given time may still be in flight at a later
\* one.
WithinDeadline(began, later) ==
    ClientTimeout.total # NoMax => later - began <= ClientTimeout.total

\* self._session is None or self._session.closed
NeedsSession(ss, s) == s = NoSession \/ ss[s] = "closed"

\* The property session: the ClientSessions after an access of it, and the
\* session it returns.
SessionsAfterGet(ss, s) == IF NeedsSession(ss, s) THEN Append(ss, "open") ELSE ss
SessionGet(ss, s) == IF NeedsSession(ss, s) THEN Len(ss) + 1 ELSE s

\* if self._session and not self._session.closed: await self._session.close()
SessionsAfterClose(ss, s) ==
    IF s # NoSession /\ ss[s] # "closed" THEN [ss EXCEPT ![s] = "closed"] ELSE ss

\* The sessions that are open.
Open(ss) == {i \in 1..Len(ss) : ss[i] = "open"}

-----------------------------------------------------------------------------
(* The state of a task *)

\* The entry of a key as a sequence: empty when the key is not in the dict.
Lookup(c, k) == IF k \in DOMAIN c THEN <<c[k]>> ELSE <<>>

\* No invocation of check_platform has been made by the command yet.
\* entry0: the key's entry when the invocation began; over: the entry its
\* write replaced; solo: no other invocation for the key overlapped it.
NoCall ==
    [kind |-> "none", reqs |-> 0, ret |-> PyNone, entry0 |-> <<>>, over |-> <<>>,
     solo |-> TRUE]

\* calls: the platforms check_platform has been invoked for by the command;
\* built: the embeds the command has built; sent: the embeds it has sent.
IdleTask ==
    [pc |-> "idle", username |-> <<>>, idx |-> 0, current_time |-> 0,
     results |-> EmptyDict, warned |-> <<>>, built |-> <<>>, sent |-> <<>>,
     calls |-> <<>>, call |-> NoCall]

\* Mutant of LoopPlatforms: the platforms named in the warning are left out.
LoopPlatformsValidOnly(username) ==
    SelectSeq(Platforms, LAMBDA platform : FullMatch(platform, username))

\* for platform in self.bot.platforms: the platforms the lookups go through.
LoopPlatforms(username) == Platforms

\* The platform of the invocation a task is in.
PlatformOf(t) == LoopPlatforms(task[t].username)[task[t].idx]

\* The key of the invocation a task is in.
KeyOf(t) == CacheKey(PlatformOf(t), task[t].username)

\* The other tasks whose request for a key is in flight.
InFlight(t, k) == {o \in Procs \ {t} : task[o].pc = "await" /\ KeyOf(o) = k}

Init ==
    /\ now = 0
    /\ cache = [k \in {} |-> [ts |-> 0, val |-> PyNone]]
    /\ search_count = 0
    /\ remote \in Scenarios
    /\ running = NoTask
    /\ task = [t \in Procs |-> IdleTask]
    /\ lookups = 0
    /\ prev = [k \in {} |-> [start |-> 0, reqs |-> 0, ret |-> PyNone, same |-> TRUE]]
    /\ sessions = <<>>
    /\ session = NoSession
    /\ shut = "up"

-----------------------------------------------------------------------------
(* SearchCog.username_check, its parts *)

\* invalid_platforms: the platforms whose pattern the username does not match.
InvalidPlatforms(username) ==
    SelectSeq(Platforms, LAMBDA platform : ~FullMatch(platform, username))

chunk_size == 6

\* Mutant of Status: one test of truth, so that None reads as Taken.
StatusTruthy(available) == IF available = PyTrue THEN "Available" ELSE "Taken"

\* status, from the result of a platform.
Status(available) ==
    IF available = PyTrue THEN "Available"
    ELSE IF available = PyFalse THEN "Taken"
    ELSE "Error"

\* platforms[i:i+chunk_size], i counted from 0.
Chunk(i) ==
    SubSeq(Platforms, i + 1,
           IF i + chunk_size < Len(Platforms) THEN i + chunk_size ELSE Len(Platforms))

\* The fields added to an embed for a chunk.
Fields(chunk, results) ==
    [j \in 1..Len(chunk) |-> [name |-> chunk[j], status |-> Status(results[chunk[j]])]]

\* range(0, len(platforms), chunk_size)
ChunkStarts ==
    [c \in 1..((Len(Platforms) + chunk_size - 1) \div chunk_size) |-> (c - 1) * chunk_size]

\* The embeds the loop over the chunks builds: the titled embed for the
\* first chunk and a new embed for each chunk after it.
Embeds(results) ==
    [c \in 1..Len(ChunkStarts) |-> Fields(Chunk(ChunkStarts[c]), results)]

\* The embeds sent by the loop over the chunks from chunk i on and by the
\* send that follows the loop; embed is the embed the loop holds.
RECURSIVE SendChunks(_, _, _, _)
SendChunks(i, embed, results, out) ==
    IF i >= Len(Platforms)
        THEN Append(out, embed)
    ELSE LET e == (IF i > 0 THEN <<>> ELSE embed) \o Fields(Chunk(i), results)
         IN SendChunks(i + chunk_size, e, results,
                       IF i > 0 THEN Append(out, e) ELSE out)

-----------------------------------------------------------------------------
(* The steps of a task *)

\* The command is invoked and runs up to its first lookup: search_count += 1,
\* the deferral, the format validation and, when some pattern fails, the
\* warning; the command goes on to the lookups in both cases. A new command
\* is run by the first task that is free, and is taken only when MaxLookups
\* leaves room for all its lookups, so that the bound stops no command that
\* has begun.
Invoke(t, username) ==
    /\ task[t].pc = "idle"
    /\ \A o \in Procs : o < t => task[o].pc # "idle"
    /\ running = NoTask
    /\ shut = "up"
    /\ (search_count + 1) * Len(Platforms) <= MaxLookups
    /\ search_count' = search_count + 1
    /\ task' = [task EXCEPT ![t] =
                  [IdleTask EXCEPT !.pc = "loop", !.username = username, !.idx = 1,
                                   !.warned = InvalidPlatforms(username)]]
    /\ running' = t
    /\ UNCHANGED <<now, cache, remote, prev, lookups, sessions, session, shut>>

\* results[platform] = await self.check_platform(platform, username), up to
\* the return of a cache hit or to the await of the request.
Call(t) ==
    /\ task[t].pc = "loop"
    /\ running = t
    /\ task[t].idx <= Len(LoopPlatforms(task[t].username))
    /\ lookups < MaxLookups
    /\ lookups' = lookups + 1
    /\ LET platform == PlatformOf(t)
           cache_key == CacheKey(platform, task[t].username)
           current_time == now
           others == InFlight(t, cache_key)
       IN IF CacheHit(cache, cache_key, current_time)
            THEN LET available == cache[cache_key].val IN
                /\ task' = [o \in Procs |->
                     IF o = t
                       THEN [task[t] EXCEPT
                             !.current_time = current_time,
                             !.results = DictSet(@, platform, available),
                             !.idx = @ + 1,
                             !.calls = Append(@, platform),
                             !.call = [kind |-> "hit", reqs |-> 0, ret |-> available,
                                       entry0 |-> Lookup(cache, cache_key),
                                       over |-> <<>>,
                                       solo |-> others = {}]]
                     ELSE IF o \in others THEN [task[o] EXCEPT !.call.solo = FALSE]
                     ELSE task[o]]
                /\ prev' = DictSet(prev, cache_key,
                                   [start |-> current_time, reqs |-> 0,
                                    ret |-> available, same |-> TRUE])
                /\ running' = t
                /\ UNCHANGED <<sessions, session>>
            ELSE
                /\ sessions' = SessionsAfterGet(sessions, session)
                /\ session' = SessionGet(sessions, session)
                /\ task' = [o \in Procs |->
                     IF o = t
                       THEN [task[t] EXCEPT
                             !.pc = "await",
                             !.current_time = current_time,
                             !.calls = Append(@, platform),
                             !.call = [kind |-> "request",
                                       reqs |-> Len(Requests(platform, task[t].username)),
                                       ret |-> PyNone,
                                       entry0 |-> Lookup(cache, cache_key),
                                       over |-> <<>>,
                                       solo |-> others = {}]]
                     ELSE IF o \in others THEN [task[o] EXCEPT !.call.solo = FALSE]
                     ELSE task[o]]
                /\ prev' = prev
                /\ running' = NoTask
    /\ UNCHANGED <<now, cache, search_count, remote, shut>>

\* The request ends in a response: available is computed and stored, and
\* check_platform returns it.
Respond(t) ==
    /\ task[t].pc = "await"
    /\ running = NoTask
    /\ remote[KeyOf(t), now].exc = ""
    /\ LET platform == PlatformOf(t)
           cache_key == KeyOf(t)
           available == Interpret(platform, remote[cache_key, now].status)
       IN
        /\ cache' = CacheStore(cache, cache_key, task[t].current_time, available)
        /\ task' = [task EXCEPT
                      ![t].pc = "loop",
                      ![t].results = DictSet(@, platform, PyBool(available)),
                      ![t].idx = @ + 1,
                      ![t].call.kind = "response",
                      ![t].call.over = Lookup(cache, cache_key),
                      ![t].call.ret = PyBool(available)]
        /\ prev' = DictSet(prev, cache_key,
                           [start |-> task[t].current_time, reqs |-> task[t].call.reqs,
                            ret |-> PyBool(available),
                            same |-> Lookup(cache', cache_key) = task[t].call.entry0])
    /\ running' = t
    /\ UNCHANGED <<now, search_count, remote, lookups, sessions, session, shut>>

\* The request ends in an exception: one the except clause names is logged
\* and check_platform returns None; any other leaves the command.
Fail(t) ==
    /\ task[t].pc = "await"
    /\ running = NoTask
    /\ remote[KeyOf(t), now].exc # ""
    /\ remote[KeyOf(t), now].exc = "TimeoutError" => ClientTimeout.total # NoMax
    /\ LET platform == PlatformOf(t)
           cache_key == KeyOf(t)
       IN IF Handled(remote[cache_key, now].exc)
            THEN
                /\ cache' = CacheOnFailure(cache, cache_key, task[t].current_time)
                /\ task' = [task EXCEPT
                              ![t].pc = "loop",
                              ![t].results = DictSet(@, platform, PyNone),
                              ![t].idx = @ + 1,
                              ![t].call.kind = "failure",
                              ![t].call.ret = PyNone]
                /\ prev' = DictSet(prev, cache_key,
                                   [start |-> task[t].current_time,
                                    reqs |-> task[t].call.reqs,
                                    ret |-> PyNone,
                                    same |-> Lookup(cache', cache_key) = task[t].call.entry0])
                /\ running' = t
            ELSE
                /\ cache' = cache
                /\ task' = [task EXCEPT ![t].pc = "raised", ![t].call.kind = "raised"]
                /\ prev' = prev
                /\ running' = t
    /\ UNCHANGED <<now, search_count, remote, lookups, sessions, session, shut>>

\* The loop over the platforms is over: the embeds are built and sent.
Render(t) ==
    /\ task[t].pc = "loop"
    /\ running = t
    /\ task[t].idx > Len(LoopPlatforms(task[t].username))
    /\ task' = [task EXCEPT
                  ![t].pc = "done",
                  ![t].built = Embeds(task[t].results),
                  ![t].sent = SendChunks(0, <<>>, task[t].results, <<>>)]
    /\ UNCHANGED <<now, cache, search_count, remote, running, prev, lookups,
                   sessions, session, shut>>

\* The command's coroutine ends, by its return or by the exception it
\* raised, and its locals go.
Return(t) ==
    /\ task[t].pc \in {"done", "raised"}
    /\ running = t
    /\ task' = [task EXCEPT ![t] = IdleTask]
    /\ running' = NoTask
    /\ UNCHANGED <<now, cache, search_count, remote, prev, lookups,
                   sessions, session, shut>>

-----------------------------------------------------------------------------
(* The environment *)

\* Time passes while the event loop waits; a request in flight lasts no
\* longer than its timeout.
Tick ==
    /\ running = NoTask
    /\ \E later \in Instants :
        /\ later > now
        /\ \A t \in Procs :
            task[t].pc = "await" => WithinDeadline(task[t].current_time, later)
        /\ now' = later
    /\ UNCHANGED <<cache, search_count, remote, running, task, prev, lookups,
                   sessions, session, shut>>

Next ==
    \/ \E t \in Procs, username \in Usernames : Invoke(t, username)
    \/ \E t \in Procs : Call(t)
    \/ \E t \in Procs : Respond(t)
    \/ \E t \in Procs : Fail(t)
    \/ \E t \in Procs : Render(t)
    \/ \E t \in Procs : Return(t)
    \/ Tick

Spec == Init /\ [][Next]_vars

\* The task that holds the event loop runs on to its next suspension, and
\* the loop resumes every task whose request has ended, in its response or
\* in an exception.
Fairness ==
    /\ WF_vars(\E t \in Procs : Call(t) \/ Render(t) \/ Return(t))
    /\ \A t \in Procs : WF_vars(Respond(t) \/ Fail(t))

\* The bot is started at the last instant but one of the clock, in an
\* outage: the runs in which requests are in flight while time passes and get
\* no response, without those in which entries age first.
LiveInit ==
    /\ now = Clock[Len(Clock) - 1]
    /\ cache = [k \in {} |-> [ts |-> 0, val |-> PyNone]]
    /\ search_count = 0
    /\ remote = Outage
    /\ running = NoTask
    /\ task = [t \in Procs |-> IdleTask]
    /\ lookups = 0
    /\ prev = [k \in {} |-> [start |-> 0, reqs |-> 0, ret |-> PyNone, same |-> TRUE]]
    /\ sessions = <<>>
    /\ session = NoSession
    /\ shut = "up"

LiveSpec == LiveInit /\ [][Next]_vars /\ Fairness

\* SearchBot.close, up to the suspension of its first await: the session
\* the bot holds, when it holds one that is open, is closed.
CloseSession ==
    /\ shut = "up"
    /\ running = NoTask
    /\ sessions' = SessionsAfterClose(sessions, session)
    /\ shut' = "closing"
    /\ UNCHANGED <<now, cache, search_count, remote, running, task, prev, lookups,
                   session>>

\* await super().close(): the bot leaves the gateway, main returns and
\* asyncio.run cancels the tasks that are left.
CloseBot ==
    /\ shut = "closing"
    /\ running = NoTask
    /\ shut' = "down"
    /\ task' = [t \in Procs |-> IdleTask]
    /\ UNCHANGED <<now, cache, search_count, remote, running, prev, lookups,
                   sessions, session>>

\* The steps of the program with its shutdown.
NextWithClose ==
    \/ \E t \in Procs, username \in Usernames : Invoke(t, username)
    \/ \E t \in Procs : Call(t)
    \/ \E t \in Procs : Respond(t)
    \/ \E t \in Procs : Fail(t)
    \/ \E t \in Procs : Render(t)
    \/ \E t \in Procs : Return(t)
    \/ Tick
    \/ CloseSession
    \/ CloseBot

LifeSpec == Init /\ [][NextWithClose]_vars

-----------------------------------------------------------------------------
(* The steps of check_platform, as seen in a transition *)

\* Task t makes an invocation of check_platform in this step.
CallBy(t) ==
    /\ lookups' = lookups + 1
    /\ task[t].pc = "loop"
    /\ task'[t].calls # task[t].calls

\* The invocation made in this step is answered from the cache.
HitBy(t) == CallBy(t) /\ task'[t].pc = "loop"

\* The invocation made in this step goes to the network.
MissBy(t) == CallBy(t) /\ task'[t].pc = "await"

\* The request of task t ends in a response in this step.
RespondBy(t) ==
    /\ task[t].pc = "await"
    /\ task'[t].pc = "loop"
    /\ task'[t].call.kind = "response"

\* The request of task t fails in this step.
FailBy(t) ==
    /\ task[t].pc = "await"
    /\ task'[t].pc # "await"
    /\ task'[t].call.kind \in {"failure", "raised"}

\* The keys whose entry the step changes.
Changed == {k \in DOMAIN cache \cup DOMAIN cache' : Lookup(cache, k) # Lookup(cache', k)}

-----------------------------------------------------------------------------
(* C1 *)

-----------------------------------------------------------------------------
(* C2 *)

\* C2: a call made when cache_ttl or more has elapsed since the timestamp of
\* the key's entry issues a request, whatever the cached value; a call made
\* 1800 seconds after the timestamp is answered from the cache.
C2_StaleEntryRefreshed ==
    [][\A t \in Procs :
        (CallBy(t) /\ KeyOf(t) \in DOMAIN cache)
        => /\ now - cache[KeyOf(t)].ts >= cache_ttl =>
                /\ MissBy(t)
                /\ task'[t].call.reqs = 1
           /\ now - cache[KeyOf(t)].ts = 1800 =>
                /\ HitBy(t)
                /\ task'[t].call.reqs = 0
                /\ task'[t].call.ret = cache[KeyOf(t)].val]_vars

\* A request is in flight for a key whose entry, holding Available, is stale.
C2_Witness ==
    \E t \in Procs :
        /\ task[t].pc = "await"
        /\ task[t].call.entry0 # <<>>
        /\ task[t].call.entry0[1].val = PyTrue
        /\ task[t].current_time - task[t].call.entry0[1].ts >= cache_ttl

-----------------------------------------------------------------------------
(* C3 *)

\* C3, as stated: when the request fails, the call returns None and the
\* key's entry is what it was when the call began; and the call that follows
\* a failed call for the key issues a request.
C3_FailureLeavesEntry ==
    [][\A t \in Procs :
        /\ FailBy(t) =>
            /\ task'[t].call.ret = PyNone
            /\ task'[t].pc = "loop"
            /\ Lookup(cache', KeyOf(t)) = task[t].call.entry0
        /\ (/\ CallBy(t)
            /\ KeyOf(t) \in DOMAIN prev
            /\ prev[KeyOf(t)].ret = PyNone)
           => MissBy(t)]_vars

\* C3, amended: the failing call returns None and does not write the cache;
\* the key's entry is what it was when the call began unless another call
\* for the key, overlapping it, stored a result meanwhile; and when none
\* did, the call that follows for the key issues a request.
C3_FailureWritesNothing ==
    [][\A t \in Procs :
        /\ FailBy(t) =>
            /\ task'[t].call.ret = PyNone
            /\ task'[t].pc = "loop"
            /\ cache' = cache
            /\ task[t].call.solo => Lookup(cache', KeyOf(t)) = task[t].call.entry0
        /\ MissBy(t) => cache' = cache
        /\ (/\ CallBy(t)
            /\ KeyOf(t) \in DOMAIN prev
            /\ prev[KeyOf(t)].ret = PyNone
            /\ prev[KeyOf(t)].same)
           => MissBy(t)]_vars

\* A call has failed for a key that has a stale entry, and returned None.
C3_Witness ==
    \E t \in Procs :
        /\ task[t].call.kind = "failure"
        /\ task[t].call.ret = PyNone
        /\ task[t].call.entry0 # <<>>
        /\ Lookup(cache, CacheKey(LoopPlatforms(task[t].username)[task[t].idx - 1],
                                  task[t].username)) = task[t].call.entry0

-----------------------------------------------------------------------------
(* C4 *)

\* The key of the invocation a task made last.
LastKeyOf(t) ==
    CacheKey(task[t].calls[Len(task[t].calls)], task[t].username)

-----------------------------------------------------------------------------
(* C5 *)

\* C5: an invocation issues no request when it is answered from the cache
\* and exactly one otherwise, whatever the platform.
C5_AtMostOneRequestPerCall ==
    \A t \in Procs :
        /\ task[t].call.reqs <= 1
        /\ task[t].call.kind = "hit" => task[t].call.reqs = 0
        /\ task[t].call.kind \in {"request", "response", "failure"} =>
                task[t].call.reqs = 1

\* An invocation for github missed the cache, issued its request and
\* returned.
C5_Witness ==
    \E t \in Procs :
        /\ task[t].call.kind = "response"
        /\ task[t].calls # <<>>
        /\ task[t].calls[Len(task[t].calls)] = "github"
        /\ task[t].call.reqs = 1

-----------------------------------------------------------------------------
(* C6 *)

\* C6: for a platform other than instagram, an invocation that gets a
\* response returns True when the status is 404 and False for any other.
C6_NotFoundMeansAvailable ==
    [][\A t \in Procs :
        (RespondBy(t) /\ PlatformOf(t) # "instagram")
        => /\ task'[t].call.ret \in {PyTrue, PyFalse}
           /\ task'[t].call.ret = PyTrue <=> remote[KeyOf(t), now].status = 404
           /\ task'[t].results[PlatformOf(t)] = task'[t].call.ret]_vars

\* github has answered 404 and the result is Available, and another platform
\* has answered a redirect and the result is Taken.
C6_Witness ==
    \E t \in Procs :
        /\ task[t].calls # <<>>
        /\ task[t].calls[Len(task[t].calls)] = "github"
        /\ task[t].call.kind = "response"
        /\ remote[LastKeyOf(t), now].status = 404
        /\ task[t].results["github"] = PyTrue
        /\ \E p \in DOMAIN task[t].results \ {"instagram"} :
                task[t].results[p] = PyFalse

-----------------------------------------------------------------------------
(* C7 *)

\* C7: for instagram, an invocation that gets a response returns True when
\* the status is 404 or 302 and False for any other.
C7_RedirectMeansAvailable ==
    [][\A t \in Procs :
        (RespondBy(t) /\ PlatformOf(t) = "instagram")
        => /\ task'[t].call.ret \in {PyTrue, PyFalse}
           /\ task'[t].call.ret = PyTrue <=>
                remote[KeyOf(t), now].status \in {404, 302}
           /\ task'[t].results[PlatformOf(t)] = task'[t].call.ret]_vars

\* instagram has answered a redirect and the result is Available.
C7_Witness ==
    \E t \in Procs :
        /\ task[t].calls # <<>>
        /\ task[t].calls[Len(task[t].calls)] = "instagram"
        /\ task[t].call.kind = "response"
        /\ remote[LastKeyOf(t), now].status = 302
        /\ task[t].results["instagram"] = PyTrue

-----------------------------------------------------------------------------
(* C8 *)

\* C8: when the request succeeds the invocation stores, under its key, the
\* time it read when it began together with the result, whatever entry the
\* key had, and returns the result it stored; an invocation answered from
\* the cache returns the value of the entry, which is the value the call
\* that stored it last returned.
C8_StoresAndReturnsResult ==
    [][\A t \in Procs :
        /\ RespondBy(t) =>
            /\ KeyOf(t) \in DOMAIN cache'
            /\ cache'[KeyOf(t)] = [ts |-> task[t].current_time,
                                   val |-> task'[t].call.ret]
            /\ task'[t].results[PlatformOf(t)] = cache'[KeyOf(t)].val
        /\ HitBy(t) =>
            /\ task'[t].call.ret = cache[KeyOf(t)].val
            /\ task'[t].results[PlatformOf(t)] = cache[KeyOf(t)].val
            /\ (KeyOf(t) \in DOMAIN prev /\ prev[KeyOf(t)].reqs = 1
                    /\ prev[KeyOf(t)].ret # PyNone)
               => task'[t].call.ret = prev[KeyOf(t)].ret]_vars

\* An invocation has replaced a stale entry by one with another value and a
\* later time, and returned the new value.
C8_Witness ==
    \E t \in Procs :
        /\ task[t].call.kind = "response"
        /\ task[t].call.entry0 # <<>>
        /\ task[t].call.entry0[1].val # task[t].call.ret
        /\ cache[LastKeyOf(t)] = [ts |-> task[t].current_time, val |-> task[t].call.ret]
        /\ task[t].call.entry0[1].ts < task[t].current_time

-----------------------------------------------------------------------------
(* C9 *)

\* C9: a step changes the entry of no key but the one of the invocation
\* whose request got its response in that step, and no key ever leaves the
\* cache.
C9_OtherKeysUntouched ==
    [][/\ DOMAIN cache \subseteq DOMAIN cache'
       /\ \A k \in Changed : \E t \in Procs : RespondBy(t) /\ KeyOf(t) = k
       /\ \A t \in Procs :
            (CallBy(t) \/ FailBy(t) \/ RespondBy(t)) =>
                \A k \in DOMAIN cache \ {KeyOf(t)} :
                    k \in DOMAIN cache' /\ cache'[k] = cache[k]]_vars

\* An invocation has stored its result while the cache held entries of other
\* keys, among them one of another username.
C9_Witness ==
    \E t \in Procs :
        /\ task[t].call.kind = "response"
        /\ \E k \in DOMAIN cache : k[2] # task[t].username
        /\ \E k \in DOMAIN cache : k[2] = task[t].username /\ k # LastKeyOf(t)

-----------------------------------------------------------------------------
(* C10 *)

\* C10: when the loop over the platforms of a command is over,
\* check_platform has been invoked once for each configured platform, in
\* their order, and a result is recorded for every platform, whether
\* lookups failed and whether the warning was sent; and no command ends
\* before its loop is over.
C10_EveryPlatformLookedUp ==
    \A t \in Procs :
        /\ task[t].pc # "raised"
        /\ task[t].pc \in {"loop", "await"} =>
            /\ task[t].idx <= Len(Platforms) + 1
            /\ task[t].calls =
                SubSeq(Platforms, 1,
                       IF task[t].pc = "await" THEN task[t].idx ELSE task[t].idx - 1)
        /\ task[t].pc = "done" =>
            /\ task[t].calls = Platforms
            /\ DOMAIN task[t].results = PlatformNames

\* A command whose username failed the validation of some platforms, and
\* some of whose lookups failed while others did not, has the results of
\* all the platforms.
C10_Witness ==
    \E t \in Procs :
        /\ task[t].pc = "done"
        /\ task[t].warned # <<>>
        /\ \E p \in PlatformNames : task[t].results[p] = PyNone
        /\ \E p \in PlatformNames : task[t].results[p] # PyNone
        /\ DOMAIN task[t].results = PlatformNames

-----------------------------------------------------------------------------
(* C11 *)

\* The fields of a sequence of embeds, one after the other.
RECURSIVE AllFields(_)
AllFields(embeds) ==
    IF embeds = <<>> THEN <<>> ELSE Head(embeds) \o AllFields(Tail(embeds))

\* C11: in the embeds a command has built, and in those it has sent, the
\* status of a platform is Available exactly when its result is True, Taken
\* exactly when it is False and Error exactly when it is None; and every
\* platform has one field in the embeds built.
C11_UnknownRenderedAsError ==
    \A t \in Procs :
        task[t].pc = "done" =>
            LET built == AllFields(task[t].built)
                shown == built \o AllFields(task[t].sent)
            IN /\ \A p \in PlatformNames :
                    Cardinality({j \in 1..Len(built) : built[j].name = p}) = 1
               /\ \A j \in 1..Len(shown) :
                    LET available == task[t].results[shown[j].name] IN
                        /\ shown[j].status = "Available" <=> available = PyTrue
                        /\ shown[j].status = "Taken" <=> available = PyFalse
                        /\ shown[j].status = "Error" <=> available = PyNone

\* A command has rendered results of the three kinds, and has sent an embed
\* with a field that reads Error.
C11_Witness ==
    \E t \in Procs :
        /\ task[t].pc = "done"
        /\ \E p \in PlatformNames : task[t].results[p] = PyTrue
        /\ \E p \in PlatformNames : task[t].results[p] = PyFalse
        /\ LET shown == AllFields(task[t].sent) IN
                \E j \in 1..Len(shown) :
                    /\ shown[j].status = "Error"
                    /\ task[t].results[shown[j].name] = PyNone

-----------------------------------------------------------------------------
(* C12 *)

\* C12: an invocation that finds the key missing or stale while the request
\* of another invocation for the key is in flight issues a request of its
\* own and writes nothing yet; an entry changes only by the write of one
\* invocation, to the pair of the time that invocation read and the result
\* it returns; and the invocation whose response comes last leaves its pair,
\* whatever the other has written.
C12_LastWriteWins ==
    [][/\ \A t \in Procs :
            /\ (CallBy(t) /\ InFlight(t, KeyOf(t)) # {}
                    /\ ~CacheHit(cache, KeyOf(t), now))
               => /\ MissBy(t)
                  /\ task'[t].call.reqs = 1
                  /\ cache' = cache
            /\ (RespondBy(t) /\ ~task[t].call.solo)
               => /\ KeyOf(t) \in DOMAIN cache'
                  /\ cache'[KeyOf(t)] = [ts |-> task[t].current_time,
                                         val |-> task'[t].call.ret]
       /\ \A k \in Changed :
            \E t \in Procs :
                /\ RespondBy(t)
                /\ KeyOf(t) = k
                /\ cache'[k] = [ts |-> task[t].current_time,
                                val |-> task'[t].call.ret]]_vars

\* Two invocations for a key overlapped and both got a response, with
\* results that differ: the entry is the pair of the one that has just
\* returned, not the result of the other.
C12_Witness ==
    \E t \in Procs, o \in Procs :
        /\ o # t
        /\ task[t].call.kind = "response"
        /\ ~task[t].call.solo
        /\ task[o].username = task[t].username
        /\ LET platform == task[t].calls[Len(task[t].calls)] IN
            /\ platform \in DOMAIN task[o].results
            /\ task[o].results[platform] \in {PyTrue, PyFalse}
            /\ task[o].results[platform] # task[t].call.ret
            /\ cache[LastKeyOf(t)] = [ts |-> task[t].current_time,
                                      val |-> task[t].call.ret]

-----------------------------------------------------------------------------
(* C13 *)

\* C13: every invocation whose request is in flight returns to its command;
\* no request is in flight for longer than the deadline of the session; and
\* an invocation whose request the deadline ends returns None.
C13_EveryInvocationReturns ==
    /\ \A t \in Procs : (task[t].pc = "await") ~> (task[t].pc = "loop")
    /\ [](\A t \in Procs :
            task[t].pc = "await" => now - task[t].current_time <= timeout_total)
    /\ [][\A t \in Procs :
            (FailBy(t) /\ remote[KeyOf(t), now].exc = "TimeoutError")
            => /\ task'[t].pc = "loop"
               /\ task'[t].call.ret = PyNone
               /\ task'[t].results[PlatformOf(t)] = PyNone]_vars

\* A request that got no response while time passed has been ended by the
\* deadline, and the invocation has returned None.
C13_Witness ==
    \E t \in Procs :
        /\ task[t].pc = "loop"
        /\ task[t].call.kind = "failure"
        /\ task[t].call.ret = PyNone
        /\ remote[LastKeyOf(t), now].exc = "TimeoutError"
        /\ now > task[t].current_time

-----------------------------------------------------------------------------
(* C14 *)

\* C14, as stated: no session exists before the first lookup; while the bot
\* is up the one session created is the session of every lookup; at no time
\* are two sessions open; and once close() is over no session is open.
C14_SingleSession ==
    /\ lookups = 0 => (sessions = <<>> /\ session = NoSession)
    /\ lookups > 0 => session # NoSession
    /\ shut = "up" => (Len(sessions) <= 1 /\ Open(sessions) = {i \in {session} : i # NoSession})
    /\ Cardinality(Open(sessions)) <= 1
    /\ shut = "down" => Open(sessions) = {}

-----------------------------------------------------------------------------
(* C15 *)

\* C15, as stated: when a command has completed, each embed it built has
\* been sent exactly once, and every platform has its status in exactly one
\* of the embeds sent.
C15_EveryEmbedSentOnce ==
    \A t \in Procs :
        task[t].pc = "done" =>
            LET sent == task[t].sent
                shown == AllFields(sent)
            IN /\ \A c \in 1..Len(task[t].built) :
                    Cardinality({j \in 1..Len(sent) : sent[j] = task[t].built[c]}) = 1
               /\ \A p \in PlatformNames :
                    Cardinality({j \in 1..Len(shown) : shown[j].name = p}) = 1

-----------------------------------------------------------------------------
(* C16 *)

\* C16, as stated: no step replaces the entry of a key by one with an
\* earlier time.
C16_TimestampNeverDecreases ==
    [][\A k \in DOMAIN cache :
        k \in DOMAIN cache' => cache'[k].ts >= cache[k].ts]_vars

\* C16, amended: the write of an invocation that no other invocation for
\* the key overlapped never sets the time of the entry back; a write sets it
\* back only when the entry it replaces was stored by an invocation that
\* began after the writing one and returned before it, and then by no more
\* than the deadline of a request.
C16_TimestampDecreasesOnlyByOverlap ==
    [][\A t \in Procs :
        (RespondBy(t) /\ KeyOf(t) \in DOMAIN cache) =>
            LET old == cache[KeyOf(t)].ts
                new == cache'[KeyOf(t)].ts
            IN /\ new = task[t].current_time
               /\ task[t].call.solo => new >= old
               /\ new < old =>
                    /\ ~task[t].call.solo
                    /\ task[t].call.entry0 # <<cache[KeyOf(t)]>>
                    /\ old <= now
                    /\ old - new <= timeout_total]_vars

\* The response of an invocation has replaced an entry by one with an
\* earlier time.
C16_Witness ==
    \E t \in Procs :
        /\ task[t].call.kind = "response"
        /\ task[t].call.over # <<>>
        /\ cache[LastKeyOf(t)].ts < task[t].call.over[1].ts
        /\ cache[LastKeyOf(t)].ts = task[t].current_time

-----------------------------------------------------------------------------
(* C17 *)

\* C17: every entry of the cache holds True or False, never None, and a
\* time that is not later than the clock; and an invocation answered from
\* the cache returns True or False.
C17_EntriesAreResults ==
    /\ \A k \in DOMAIN cache :
        /\ cache[k].val \in {PyTrue, PyFalse}
        /\ cache[k].ts <= now
    /\ \A t \in Procs :
        task[t].call.kind = "hit" => task[t].call.ret \in {PyTrue, PyFalse}

\* A command has had a lookup fail and another answered from the cache,
\* while the cache holds an Available and a Taken entry, one of them stored
\* before the current time, and no entry for the key of the failed lookup.
C17_Witness ==
    \E t \in Procs :
        /\ task[t].call.kind = "hit"
        /\ \E p \in DOMAIN task[t].results :
            /\ task[t].results[p] = PyNone
            /\ CacheKey(p, task[t].username) \notin DOMAIN cache
        /\ \E k \in DOMAIN cache : cache[k].val = PyTrue
        /\ \E k \in DOMAIN cache : cache[k].val = PyFalse
        /\ \E k \in DOMAIN cache : cache[k].ts < now

====
